---------------------------- MODULE Spec2Model ----------------------------
(***************************************************************************)
(* A model of TransformUtils.py, the transformation utilities of the       *)
(* LightField viewer.                                                       *)
(*                                                                          *)
(* Numbers are integers: every input set below is chosen so that the       *)
(* results of the floating-point code are integers too, and the model      *)
(* computes them exactly.  A value v / sqrt(n2) that the code holds between *)
(* two steps (a normalised vector, a unit quaternion) is kept as the pair  *)
(* [v, n2], so that a normalisation is computed and never assumed.  NaN,   *)
(* which numpy produces for 0/0, is the distinguished number NaN.          *)
(*                                                                          *)
(* The state is the heap of vtkTransform objects (a handle is an index     *)
(* into heap) and the record of the last call with its arguments, the heap *)
(* it was made in (before), its return value and the exception it raised.  *)
(* calls and mutations count the calls made; copies is the set of pairs    *)
(* <<t, c>> such that a call copyFrame(t) returned c.                      *)
(***************************************************************************)
EXTENDS Integers, Sequences, FiniteSets, TLC

VARIABLES heap, last, calls, mutations, copies

vars == <<heap, last, calls, mutations, copies>>

----------------------------------------------------------------------------
(* Bounds of the model. *)

\* transforms alive at once
MaxHandles == 3
\* calls in a run of the conversion and composition operations
MaxCalls == 2
\* calls of ApplyTransformation in a run
MaxMutations == 1
\* calls in a run of a pure function whose inputs Init draws
MaxPureCalls == 1
\* largest entry written into a numpy matrix
MaxVal == 2
\* largest component of a reference vector, a point or a view-up vector
MaxCoord == 2
\* weights are the multiples of 1/WDen
WDen == 2
\* weights range over -WSpan/WDen .. 1 + WSpan/WDen
WSpan == 2

----------------------------------------------------------------------------
(* Numbers, vectors and 4x4 matrices.  A matrix is a tuple of four rows;   *)
(* the code's 0-based element (r, c) is M[r+1][c+1].                       *)

NaN == -1000000

IsNaN(x) == x = NaN

Abs(x) == IF x < 0 THEN -x ELSE x

\* numpy.sign
Sign(x) == IF x > 0 THEN 1 ELSE IF x < 0 THEN -1 ELSE 0

\* IEEE sum of products: NaN as soon as one operand is NaN (0 * NaN = NaN)
SumProd4(a, b) ==
    IF \E k \in 1..4 : IsNaN(a[k]) \/ IsNaN(b[k])
    THEN NaN
    ELSE a[1]*b[1] + a[2]*b[2] + a[3]*b[3] + a[4]*b[4]

Identity4 == << <<1,0,0,0>>, <<0,1,0,0>>, <<0,0,1,0>>, <<0,0,0,1>> >>

Column(M, c) == <<M[1][c], M[2][c], M[3][c], M[4][c]>>

\* the row a of the left factor times the matrix B
MatMulRow(a, B) ==
    << SumProd4(a, Column(B, 1)), SumProd4(a, Column(B, 2)),
       SumProd4(a, Column(B, 3)), SumProd4(a, Column(B, 4)) >>

\* vtkMatrix4x4::Multiply4x4
MatMul(A, B) ==
    << MatMulRow(A[1], B), MatMulRow(A[2], B),
       MatMulRow(A[3], B), MatMulRow(A[4], B) >>

HasNaN(M) == \E r \in 1..4, c \in 1..4 : IsNaN(M[r][c])

Dot3(a, b) == a[1]*b[1] + a[2]*b[2] + a[3]*b[3]

\* numpy.cross
Cross3(a, b) ==
    << a[2]*b[3] - a[3]*b[2], a[3]*b[1] - a[1]*b[3], a[1]*b[2] - a[2]*b[1] >>

TranslationMatrix(p) ==
    << <<1,0,0,p[1]>>, <<0,1,0,p[2]>>, <<0,0,1,p[3]>>, <<0,0,0,1>> >>

\* the 4x4 matrix with rotation part the columns ax, ay, az and translation p
FrameMatrix(ax, ay, az, p) ==
    << <<ax[1], ay[1], az[1], p[1]>>,
       <<ax[2], ay[2], az[2], p[2]>>,
       <<ax[3], ay[3], az[3], p[3]>>,
       <<0, 0, 0, 1>> >>

----------------------------------------------------------------------------
(* vtkTransform.  An object is its composition mode (post: PostMultiply)   *)
(* and its concatenation: the items whose product, left to right, is the   *)
(* transform's matrix.  An item is a constant matrix (ref = 0) or a        *)
(* reference to another transform (ref = its handle), which vtk evaluates  *)
(* when the matrix is read.                                                *)

ConstItem(M) == [ref |-> 0, m |-> M]

RefItem(h) == [ref |-> h, m |-> Identity4]

\* vtk.vtkTransform(): the identity, in PreMultiply mode
NewTransform == [post |-> FALSE, chain |-> << >>]

Handles(hp) == 1..Len(hp)

RECURSIVE ChainMatrix(_, _)
ChainMatrix(hp, chain) ==
    IF chain = << >>
    THEN Identity4
    ELSE LET it == Head(chain)
             m  == IF it.ref = 0 THEN it.m
                   ELSE ChainMatrix(hp, hp[it.ref].chain)
         IN  MatMul(m, ChainMatrix(hp, Tail(chain)))

\* vtkTransform::GetMatrix
GetMatrix(hp, h) == ChainMatrix(hp, hp[h].chain)

\* vtkMatrix4x4::GetElement, 0-based
GetElement(M, r, c) == M[r+1][c+1]

\* vtkTransform::PostMultiply / PreMultiply
PostMultiply(t) == [t EXCEPT !.post = TRUE]

PreMultiply(t) == [t EXCEPT !.post = FALSE]

\* vtkTransform::Concatenate(const double elements[16]): the new matrix goes
\* to the left of the current one in PostMultiply mode (M' = A * M) and to
\* its right in PreMultiply mode (M' = M * A); constant neighbours are merged.
ConcatenateMatrix(t, A) ==
    LET n == Len(t.chain) IN
    IF t.post
    THEN IF n > 0 /\ t.chain[1].ref = 0
         THEN [t EXCEPT !.chain[1] = ConstItem(MatMul(A, t.chain[1].m))]
         ELSE [t EXCEPT !.chain = <<ConstItem(A)>> \o t.chain]
    ELSE IF n > 0 /\ t.chain[n].ref = 0
         THEN [t EXCEPT !.chain[n] = ConstItem(MatMul(t.chain[n].m, A))]
         ELSE [t EXCEPT !.chain = t.chain \o <<ConstItem(A)>>]

\* vtkTransform::Concatenate(vtkLinearTransform*): the transform is kept by
\* reference, on the same side
ConcatenateTransform(t, h) ==
    IF t.post
    THEN [t EXCEPT !.chain = <<RefItem(h)>> \o t.chain]
    ELSE [t EXCEPT !.chain = t.chain \o <<RefItem(h)>>]

\* vtkTransform::SetMatrix: Identity(), then Concatenate(elements)
SetMatrix(t, M) == [t EXCEPT !.chain = <<ConstItem(M)>>]

\* vtkTransform::Translate
Translate(t, p) == ConcatenateMatrix(t, TranslationMatrix(p))

----------------------------------------------------------------------------
(* numpy arrays: a shape and the elements in C order.                      *)

RECURSIVE Product(_)
Product(s) == IF s = << >> THEN 1 ELSE Head(s) * Product(Tail(s))

\* ndarray.flatten(): a copy of the elements, in C order
Flatten(arr) == arr.data

\* the 4x4 array of a matrix
ArrayOf(M) ==
    [shape |-> <<4, 4>>,
     data  |-> [i \in 1..16 |-> M[((i - 1) \div 4) + 1][((i - 1) % 4) + 1]]]

\* the matrix vtk reads from 16 elements, row by row
MatrixOfElements(e) ==
    << <<e[1], e[2], e[3], e[4]>>, <<e[5], e[6], e[7], e[8]>>,
       <<e[9], e[10], e[11], e[12]>>, <<e[13], e[14], e[15], e[16]>> >>

----------------------------------------------------------------------------
(* 4.1 Matrix / transform conversion.  Each function is an operator from   *)
(* the heap and the arguments to the heap after the call, the value        *)
(* returned (ret, 0 for none) and the exception raised.                    *)

\* getTransformFromNumpy without its assert: vtk refuses only a sequence that
\* does not hold 16 elements
getTransformFromNumpy_NoAssert(hp, mat) ==
    IF Len(Flatten(mat)) /= 16
    THEN [heap |-> hp, ret |-> 0, raised |-> "TypeError", mat |-> mat]
    ELSE [heap   |-> Append(hp, SetMatrix(NewTransform,
                                          MatrixOfElements(Flatten(mat)))),
          ret    |-> Len(hp) + 1,
          raised |-> "none",
          mat    |-> mat]

getTransformFromNumpy(hp, mat) ==
    IF mat.shape /= <<4, 4>>
    THEN [heap |-> hp, ret |-> 0, raised |-> "AssertionError", mat |-> mat]
    ELSE [heap   |-> Append(hp, SetMatrix(NewTransform,
                                          MatrixOfElements(Flatten(mat)))),
          ret    |-> Len(hp) + 1,
          raised |-> "none",
          mat    |-> mat]

\* getNumpyFromTransform with row and column exchanged
getNumpyFromTransform_Transposed(hp, transform) ==
    LET mat == GetMatrix(hp, transform)
    IN  [shape |-> <<4, 4>>,
         data  |-> [i \in 1..16 |->
                      GetElement(mat, (i - 1) % 4, (i - 1) \div 4)]]

getNumpyFromTransform(hp, transform) ==
    LET mat == GetMatrix(hp, transform)
    IN  [shape |-> <<4, 4>>,
         data  |-> [i \in 1..16 |->
                      GetElement(mat, (i - 1) \div 4, (i - 1) % 4)]]

----------------------------------------------------------------------------
(* The calls of 4.1, and the arrays they are given.                        *)

\* the 4x4 matrix that holds v at the 0-based place (i, j) and 0 elsewhere
UnitMatrix(i, j, v) ==
    [r \in 1..4 |-> [c \in 1..4 |-> IF r = i + 1 /\ c = j + 1 THEN v ELSE 0]]

\* the 4x4 matrix 1, 2, .. 16, row by row: no two elements are equal
CountingMatrix ==
    [r \in 1..4 |-> [c \in 1..4 |-> 4 * (r - 1) + c]]

\* an array of the given shape holding 1, 2, ..
CountingArray(shape) ==
    [shape |-> shape, data |-> [i \in 1..Product(shape) |-> i]]

BadShapes == { <<3, 3>>, <<4, 3>>, <<3, 4>>, <<2, 8>>, <<16>>, <<4, 4, 1>>, << >> }

NumpyInputs ==
    { ArrayOf(UnitMatrix(i, j, v)) : i \in 0..3, j \in 0..3, v \in 1..MaxVal }
    \cup { ArrayOf(CountingMatrix), ArrayOf(Identity4) }
    \cup { CountingArray(s) : s \in BadShapes }

InitConv ==
    /\ heap = << >>
    /\ last = [op |-> "init"]
    /\ calls = 0
    /\ mutations = 0
    /\ copies = {}

Call_getTransformFromNumpy ==
    \E mat \in NumpyInputs :
        /\ calls < MaxCalls
        /\ Len(heap) < MaxHandles
        /\ LET r == getTransformFromNumpy(heap, mat)
           IN  /\ heap' = r.heap
               /\ last' = [op |-> "getTransformFromNumpy", before |-> heap, mat |-> mat,
                           matAfter |-> r.mat, ret |-> r.ret,
                           raised |-> r.raised]
        /\ calls' = calls + 1
        /\ UNCHANGED <<mutations, copies>>

Call_getNumpyFromTransform ==
    \E h \in Handles(heap) :
        /\ calls < MaxCalls
        /\ last' = [op |-> "getNumpyFromTransform", before |-> heap, transform |-> h,
                    ret |-> getNumpyFromTransform(heap, h), raised |-> "none"]
        /\ calls' = calls + 1
        /\ UNCHANGED <<heap, mutations, copies>>

NextConv == Call_getTransformFromNumpy \/ Call_getNumpyFromTransform

SpecConv == InitConv /\ [][NextConv]_vars

----------------------------------------------------------------------------
(* C1: getNumpyFromTransform(getTransformFromNumpy(M)) is a 4x4 array equal *)
(* to M element by element, and M is as it was: whenever a call of         *)
(* getTransformFromNumpy(M) that returned a transform is followed by       *)
(* getNumpyFromTransform of that transform, the array returned is M, and   *)
(* the array M after the first call is M.                                  *)
C1_RoundTrip ==
    [][ ( /\ last.op = "getTransformFromNumpy"
          /\ last.raised = "none"
          /\ last'.op = "getNumpyFromTransform"
          /\ last'.transform = last.ret )
        => ( /\ last'.ret.shape = <<4, 4>>
             /\ last'.ret = last.mat
             /\ last.matAfter = last.mat ) ]_vars

\* the round trip of a matrix that differs from its transpose has been made
C1_Witness ==
    /\ last.op = "getNumpyFromTransform"
    /\ last.ret = ArrayOf(CountingMatrix)
    /\ getTransformFromNumpy(<< >>, last.ret).heap = <<heap[last.transform]>>

(* C2: getTransformFromNumpy fails with the shape error (the assert's      *)
(* AssertionError) for every array whose shape is not (4, 4), and then no  *)
(* transform is constructed or returned; for every 4x4 array it does not   *)
(* fail and returns a new transform.                                       *)
C2_InvalidShape ==
    last.op = "getTransformFromNumpy"
    => IF last.mat.shape /= <<4, 4>>
       THEN /\ last.raised = "AssertionError"
            /\ last.ret = 0
            /\ heap = last.before
       ELSE /\ last.raised = "none"
            /\ last.ret = Len(last.before) + 1
            /\ Len(heap) = Len(last.before) + 1

\* an array of 16 elements that is not 4x4 has been refused
C2_Witness ==
    /\ last.op = "getTransformFromNumpy"
    /\ last.mat.shape = <<2, 8>>
    /\ last.raised = "AssertionError"
    /\ heap = << >>

----------------------------------------------------------------------------
(* copyFrame (4.1) and the composition functions (4.2).                    *)

\* Python's None, as an argument that may also be an array
None == [none |-> TRUE]

IsNone(x) == x = None

\* copyFrame that concatenates the transform itself instead of its matrix
copyFrame_ByReference(hp, transform) ==
    [heap   |-> Append(hp, ConcatenateTransform(PostMultiply(NewTransform),
                                                transform)),
     ret    |-> Len(hp) + 1,
     raised |-> "none"]

copyFrame(hp, transform) ==
    LET t == PostMultiply(NewTransform)
    IN  [heap   |-> Append(hp, SetMatrix(t, GetMatrix(hp, transform))),
         ret    |-> Len(hp) + 1,
         raised |-> "none"]

\* actor_transform.Concatenate(a.flatten().tolist()) under "if a is not None"
ConcatenateIfGiven(t, a) ==
    IF IsNone(a) THEN t
    ELSE ConcatenateMatrix(t, MatrixOfElements(Flatten(a)))

\* ApplyTransformation with the two branches of "order" exchanged
ApplyTransformation_OrderSwapped(hp, actor_transform, numpy_translation, numpy_rotation, order, post) ==
    LET t0 == IF post THEN PostMultiply(hp[actor_transform])
                      ELSE PreMultiply(hp[actor_transform])
        t2 == IF order = 0
              THEN ConcatenateIfGiven(ConcatenateIfGiven(t0, numpy_translation),
                                      numpy_rotation)
              ELSE ConcatenateIfGiven(ConcatenateIfGiven(t0, numpy_rotation),
                                      numpy_translation)
    IN  [heap   |-> [hp EXCEPT ![actor_transform] = t2],
         ret    |-> actor_transform,
         raised |-> "none"]

\* ApplyTransformation whose second concatenation sits under the first test
ApplyTransformation_NestedTest(hp, actor_transform, numpy_translation, numpy_rotation, order, post) ==
    LET t0 == IF post THEN PostMultiply(hp[actor_transform])
                      ELSE PreMultiply(hp[actor_transform])
        t2 == IF order = 0
              THEN IF IsNone(numpy_rotation) THEN t0
                   ELSE ConcatenateIfGiven(
                            ConcatenateIfGiven(t0, numpy_rotation),
                            numpy_translation)
              ELSE IF IsNone(numpy_translation) THEN t0
                   ELSE ConcatenateIfGiven(
                            ConcatenateIfGiven(t0, numpy_translation),
                            numpy_rotation)
    IN  [heap   |-> [hp EXCEPT ![actor_transform] = t2],
         ret    |-> actor_transform,
         raised |-> "none"]

ApplyTransformation(hp, actor_transform, numpy_translation, numpy_rotation, order, post) ==
    LET t0 == IF post THEN PostMultiply(hp[actor_transform])
                      ELSE PreMultiply(hp[actor_transform])
        t2 == IF order = 0
              THEN ConcatenateIfGiven(ConcatenateIfGiven(t0, numpy_rotation),
                                      numpy_translation)
              ELSE ConcatenateIfGiven(ConcatenateIfGiven(t0, numpy_translation),
                                      numpy_rotation)
    IN  [heap   |-> [hp EXCEPT ![actor_transform] = t2],
         ret    |-> actor_transform,
         raised |-> "none"]

\* math.sin and math.cos of an angle in degrees that is a multiple of 90
SinDeg(d) == CASE d % 360 = 0   -> 0
               [] d % 360 = 90  -> 1
               [] d % 360 = 180 -> 0
               [] d % 360 = 270 -> -1

CosDeg(d) == SinDeg(d + 90)

\* transformations.euler_matrix(ai, aj, ak) with its default axes 'sxyz',
\* the angles in degrees
EulerMatrix(ai, aj, ak) ==
    LET si == SinDeg(ai)  sj == SinDeg(aj)  sk == SinDeg(ak)
        ci == CosDeg(ai)  cj == CosDeg(aj)  ck == CosDeg(ak)
        cc == ci * ck  cs == ci * sk
        sc == si * ck  ss == si * sk
    IN  << << cj * ck, sj * sc - cs, sj * cc + ss, 0 >>,
           << cj * sk, sj * ss + cc, sj * cs - sc, 0 >>,
           << 0 - sj, cj * si, cj * ci, 0 >>,
           << 0, 0, 0, 1 >> >>

ApplyTransformationEuler(hp, actor_transform, x_translate, y_translate, z_translate, roll, pitch, yaw, order, post) ==
    LET numpy_translation ==
            ArrayOf(TranslationMatrix(<<x_translate, y_translate, z_translate>>))
        numpy_rotation == ArrayOf(EulerMatrix(roll, pitch, yaw))
    IN  ApplyTransformation(hp, actor_transform, numpy_translation,
                            numpy_rotation, order, post)

\* the loop "for t in transformList: result.Concatenate(t)"
RECURSIVE ConcatenateAll(_, _)
ConcatenateAll(result, transformList) ==
    IF transformList = << >>
    THEN result
    ELSE ConcatenateAll(ConcatenateTransform(result, Head(transformList)),
                        Tail(transformList))

\* concatenateTransforms that leaves the result in vtk's default PreMultiply
concatenateTransforms_PreMultiply(hp, transformList) ==
    [heap   |-> Append(hp, ConcatenateAll(NewTransform, transformList)),
     ret    |-> Len(hp) + 1,
     raised |-> "none"]

concatenateTransforms(hp, transformList) ==
    LET result == PostMultiply(NewTransform)
    IN  [heap   |-> Append(hp, ConcatenateAll(result, transformList)),
         ret    |-> Len(hp) + 1,
         raised |-> "none"]

----------------------------------------------------------------------------
(* The calls of copyFrame and of 4.2.  The transforms a run starts with    *)
(* are ones getTransformFromNumpy builds, in either composition mode; the  *)
(* matrices do not commute, and one of them is not rigid.                  *)

\* rotation by 90 degrees about Z, then translation by (1, 2, 3)
RotZ90At123 == FrameMatrix(<<0,1,0>>, <<-1,0,0>>, <<0,0,1>>, <<1,2,3>>)

\* rotation by 90 degrees about X, then translation by (0, 1, 0)
RotX90At010 == FrameMatrix(<<1,0,0>>, <<0,0,1>>, <<0,-1,0>>, <<0,1,0>>)

\* scaling by (2, 1, 3) with a shear, then translation by (0, 0, 1)
ShearScale == FrameMatrix(<<2,0,0>>, <<1,1,0>>, <<0,0,3>>, <<0,0,1>>)

\* rotation by 90 degrees about Y
RotY90 == FrameMatrix(<<0,0,-1>>, <<0,1,0>>, <<1,0,0>>, <<0,0,0>>)

TransformOf(M, post) == [post |-> post, chain |-> <<ConstItem(M)>>]

InitHeaps ==
    { <<TransformOf(RotZ90At123, FALSE)>>,
      <<TransformOf(RotZ90At123, TRUE), TransformOf(RotX90At010, FALSE)>>,
      <<TransformOf(ShearScale, FALSE), TransformOf(RotZ90At123, TRUE)>> }

TranslationInputs == { None, ArrayOf(TranslationMatrix(<<1, 0, 2>>)) }

RotationInputs == { None, ArrayOf(RotY90) }

\* (x_translate, y_translate, z_translate)
EulerTranslations == { <<0, 0, 0>>, <<1, 0, 2>> }

\* (roll, pitch, yaw) in degrees
EulerAngles == { <<90, 0, 0>>, <<-90, 180, 270>> }

\* 0 and 1 are the documented values; 2 stands for any other
OrderInputs == { 0, 1, 2 }

\* the lists of at most two transforms of the heap
TransformLists ==
    { << >> } \cup { <<a>> : a \in Handles(heap) }
    \cup { <<a, b>> : a \in Handles(heap), b \in Handles(heap) }

InitCompose ==
    /\ heap \in InitHeaps
    /\ last = [op |-> "init"]
    /\ calls = 0
    /\ mutations = 0
    /\ copies = {}

Call_copyFrame ==
    \E t \in Handles(heap) :
        /\ calls < MaxCalls
        /\ Len(heap) < MaxHandles
        /\ LET r == copyFrame(heap, t)
           IN  /\ heap' = r.heap
               /\ last' = [op |-> "copyFrame", before |-> heap, transform |-> t,
                           ret |-> r.ret, raised |-> r.raised]
               /\ copies' = copies \cup { <<t, r.ret>> }
        /\ calls' = calls + 1
        /\ UNCHANGED mutations

Call_ApplyTransformation ==
    \E t \in Handles(heap), T \in TranslationInputs, R \in RotationInputs,
       order \in OrderInputs, post \in BOOLEAN :
        /\ calls < MaxCalls
        /\ mutations < MaxMutations
        /\ LET r == ApplyTransformation(heap, t, T, R, order, post)
           IN  /\ heap' = r.heap
               /\ last' = [op |-> "ApplyTransformation", before |-> heap,
                           actor_transform |-> t, numpy_translation |-> T,
                           numpy_rotation |-> R, order |-> order,
                           post |-> post, ret |-> r.ret, raised |-> r.raised]
        /\ calls' = calls + 1
        /\ mutations' = mutations + 1
        /\ UNCHANGED copies

Call_ApplyTransformationEuler ==
    \E t \in Handles(heap), xyz \in EulerTranslations, rpy \in EulerAngles,
       order \in OrderInputs, post \in BOOLEAN :
        /\ calls < MaxCalls
        /\ mutations < MaxMutations
        /\ LET r == ApplyTransformationEuler(heap, t, xyz[1], xyz[2], xyz[3],
                                             rpy[1], rpy[2], rpy[3], order, post)
           IN  /\ heap' = r.heap
               /\ last' = [op |-> "ApplyTransformationEuler", before |-> heap,
                           actor_transform |-> t, translate |-> xyz,
                           rpy |-> rpy, order |-> order,
                           post |-> post, ret |-> r.ret, raised |-> r.raised]
        /\ calls' = calls + 1
        /\ mutations' = mutations + 1
        /\ UNCHANGED copies

Call_concatenateTransforms ==
    \E transformList \in TransformLists :
        /\ calls < MaxCalls
        /\ Len(heap) < MaxHandles
        /\ LET r == concatenateTransforms(heap, transformList)
           IN  /\ heap' = r.heap
               /\ last' = [op |-> "concatenateTransforms", before |-> heap,
                           transformList |-> transformList,
                           ret |-> r.ret, raised |-> r.raised]
        /\ calls' = calls + 1
        /\ UNCHANGED <<mutations, copies>>

NextCompose ==
    \/ Call_copyFrame
    \/ Call_ApplyTransformation
    \/ Call_ApplyTransformationEuler
    \/ Call_concatenateTransforms

SpecCompose == InitCompose /\ [][NextCompose]_vars

----------------------------------------------------------------------------
(* What the composition claims compare the code with.                      *)

\* the matrix of a 4x4 array
MatrixOfArray(a) == MatrixOfElements(a.data)

\* tn * ... * t2 * t1 for the list <<t1, ..., tn>>
RECURSIVE PostProduct(_, _)
PostProduct(hp, list) ==
    IF list = << >>
    THEN Identity4
    ELSE MatMul(PostProduct(hp, Tail(list)), GetMatrix(hp, Head(list)))

(* C3: concatenateTransforms(list) returns a new transform in post-multiply *)
(* mode whose matrix is tn * ... * t2 * t1 for the list [t1, ..., tn]: the  *)
(* identity for the empty list, t's matrix for [t]; no transform of the    *)
(* list (nor any other) is modified.                                       *)
C3_Concatenate ==
    last.op = "concatenateTransforms"
    => LET list == last.transformList
           ret  == last.ret
           old  == last.before
       IN  /\ ret = Len(old) + 1
           /\ Len(heap) = Len(old) + 1
           /\ heap[ret].post
           /\ GetMatrix(heap, ret) = PostProduct(old, list)
           /\ list = << >> => GetMatrix(heap, ret) = Identity4
           /\ Len(list) = 1 => GetMatrix(heap, ret) = GetMatrix(old, list[1])
           /\ \A g \in Handles(old) : heap[g] = old[g]

\* two transforms whose matrices do not commute have been concatenated
C3_Witness ==
    /\ last.op = "concatenateTransforms"
    /\ Len(last.transformList) = 2
    /\ LET a == GetMatrix(heap, last.transformList[1])
           b == GetMatrix(heap, last.transformList[2])
       IN  /\ MatMul(a, b) /= MatMul(b, a)
           /\ GetMatrix(heap, last.ret) = MatMul(b, a)

(* C8: ApplyTransformation with both a rotation R and a translation T      *)
(* leaves the transform, of matrix M before the call, with the matrix      *)
(* T*R*M (order 0, post), R*T*M (order 1, post), M*R*T (order 0, pre) or   *)
(* M*T*R (order 1, pre).                                                   *)
C8_ApplyOrder ==
    ( /\ last.op = "ApplyTransformation"
      /\ ~IsNone(last.numpy_translation)
      /\ ~IsNone(last.numpy_rotation)
      /\ last.order \in {0, 1} )
    => LET M  == GetMatrix(last.before, last.actor_transform)
           M2 == GetMatrix(heap, last.actor_transform)
           T  == MatrixOfArray(last.numpy_translation)
           R  == MatrixOfArray(last.numpy_rotation)
       IN  /\ (last.order = 0 /\ last.post) => M2 = MatMul(T, MatMul(R, M))
           /\ (last.order = 1 /\ last.post) => M2 = MatMul(R, MatMul(T, M))
           /\ (last.order = 0 /\ ~last.post) => M2 = MatMul(MatMul(M, R), T)
           /\ (last.order = 1 /\ ~last.post) => M2 = MatMul(MatMul(M, T), R)

\* a rotation and a translation have been applied, in order 0 and post mode,
\* to a transform on which the four compositions differ
C8_Witness ==
    /\ last.op = "ApplyTransformation"
    /\ ~IsNone(last.numpy_translation)
    /\ ~IsNone(last.numpy_rotation)
    /\ last.order = 0
    /\ last.post
    /\ LET M == GetMatrix(last.before, last.actor_transform)
           T == MatrixOfArray(last.numpy_translation)
           R == MatrixOfArray(last.numpy_rotation)
       IN  /\ GetMatrix(heap, last.ret) = MatMul(T, MatMul(R, M))
           /\ MatMul(T, MatMul(R, M)) /= MatMul(R, MatMul(T, M))
           /\ MatMul(T, MatMul(R, M)) /= MatMul(MatMul(M, R), T)
           /\ MatMul(T, MatMul(R, M)) /= MatMul(MatMul(M, T), R)

(* C9: copyFrame(t) returns a new transform, distinct from t, in           *)
(* post-multiply mode, with t's matrix; t is unchanged by the call; a      *)
(* later mutation of t leaves the copy's matrix unchanged, and a mutation  *)
(* of the copy leaves t's matrix unchanged.                                *)
C9_CopyFrame ==
    /\ last.op = "copyFrame"
         => LET t   == last.transform
                c   == last.ret
                old == last.before
            IN  /\ c = Len(old) + 1
                /\ c /= t
                /\ heap[c].post
                /\ GetMatrix(heap, c) = GetMatrix(old, t)
                /\ heap[t] = old[t]
                /\ GetMatrix(heap, t) = GetMatrix(old, t)
    /\ last.op \in {"ApplyTransformation", "ApplyTransformationEuler"}
         => \A p \in copies :
              /\ last.actor_transform = p[1]
                   => GetMatrix(heap, p[2]) = GetMatrix(last.before, p[2])
              /\ last.actor_transform = p[2]
                   => GetMatrix(heap, p[1]) = GetMatrix(last.before, p[1])

\* a transform has been copied and then mutated, and the two matrices differ
C9_Witness ==
    /\ last.op = "ApplyTransformation"
    /\ \E p \in copies :
         /\ last.actor_transform = p[1]
         /\ GetMatrix(last.before, p[1]) = GetMatrix(last.before, p[2])
         /\ GetMatrix(heap, p[1]) /= GetMatrix(heap, p[2])

(* C10: ApplyTransformation returns the handle it was given and builds no  *)
(* new transform; a component that is None is skipped: with the            *)
(* translation alone the matrix becomes T*M (post) or M*T (pre), with the  *)
(* rotation alone R*M or M*R, with neither it is unchanged, whatever the   *)
(* order.                                                                  *)
C10_ApplyOptional ==
    last.op = "ApplyTransformation"
    => LET t  == last.actor_transform
           M  == GetMatrix(last.before, t)
           M2 == GetMatrix(heap, t)
           T  == last.numpy_translation
           R  == last.numpy_rotation
       IN  /\ last.ret = t
           /\ Len(heap) = Len(last.before)
           /\ (IsNone(T) /\ IsNone(R)) => M2 = M
           /\ (~IsNone(T) /\ IsNone(R))
                => M2 = IF last.post THEN MatMul(MatrixOfArray(T), M)
                                     ELSE MatMul(M, MatrixOfArray(T))
           /\ (IsNone(T) /\ ~IsNone(R))
                => M2 = IF last.post THEN MatMul(MatrixOfArray(R), M)
                                     ELSE MatMul(M, MatrixOfArray(R))

\* a translation alone has been applied, in order 0, and changed the matrix
C10_Witness ==
    /\ last.op = "ApplyTransformation"
    /\ IsNone(last.numpy_rotation)
    /\ ~IsNone(last.numpy_translation)
    /\ last.order = 0
    /\ last.ret = last.actor_transform
    /\ GetMatrix(heap, last.ret) /= GetMatrix(last.before, last.ret)

----------------------------------------------------------------------------
(* 4.3 / 4.4: the axes of a transform and findTransformAxis.               *)
(*                                                                          *)
(* A vector of the form v / sqrt(n2), with v an integer vector, is the     *)
(* record [v, n2]; n2 = 0 stands for the NaN vector 0/0.                   *)

Surd(v, n2) == [v |-> v, n2 |-> n2]

\* x / np.linalg.norm(x) for an integer vector x
UnitOf(x) == Surd(x, Dot3(x, x))

\* the upper-left 3x3 determinant
Det3(M) ==
      M[1][1] * (M[2][2] * M[3][3] - M[2][3] * M[3][2])
    - M[1][2] * (M[2][1] * M[3][3] - M[2][3] * M[3][1])
    + M[1][3] * (M[2][1] * M[3][2] - M[2][2] * M[3][1])

\* column c (1-based) of the rotation part
Col3(M, c) == <<M[1][c], M[2][c], M[3][c]>>

\* the cofactor matrix of the rotation part times n: det * inverse transpose
CofactorTimes(M, n) ==
    LET c1 == Cross3(Col3(M, 2), Col3(M, 3))
        c2 == Cross3(Col3(M, 3), Col3(M, 1))
        c3 == Cross3(Col3(M, 1), Col3(M, 2))
    IN  << c1[1]*n[1] + c2[1]*n[2] + c3[1]*n[3],
           c1[2]*n[1] + c2[2]*n[2] + c3[2]*n[3],
           c1[3]*n[1] + c2[3]*n[2] + c3[3]*n[3] >>

\* vtkTransform::TransformNormal: the inverse transpose of the rotation part
\* applied to n, normalised
TransformNormal(M, n) ==
    LET w == CofactorTimes(M, n)
        d == Sign(Det3(M))
    IN  UnitOf(<<d * w[1], d * w[2], d * w[3]>>)

getAxesFromTransform(hp, t) ==
    LET M == GetMatrix(hp, t)
    IN  << TransformNormal(M, <<1, 0, 0>>),
           TransformNormal(M, <<0, 1, 0>>),
           TransformNormal(M, <<0, 0, 1>>) >>

\* np.dot of two such vectors is Dot3(a.v, b.v) / sqrt(a.n2 * b.n2); the
\* absolute values of two of them, taken with the same b, compare as follows
AbsDotLess(a1, a2, b) ==
    LET d1 == Dot3(a1.v, b.v)
        d2 == Dot3(a2.v, b.v)
    IN  d1 * d1 * a2.n2 < d2 * d2 * a1.n2

\* ndarray.argmax over the three projections: the first index of the maximum
ArgMaxProjection(axes, refAxis) ==
    CHOOSE i \in 0..2 :
        /\ \A j \in 0..2 : ~AbsDotLess(axes[i + 1], axes[j + 1], refAxis)
        /\ \A j \in 0..2 : j < i => AbsDotLess(axes[j + 1], axes[i + 1], refAxis)

\* findTransformAxis that keeps the last index of the maximum
findTransformAxis_LastMax(hp, transform, referenceVector) ==
    LET refAxis    == UnitOf(referenceVector)
        axes       == getAxesFromTransform(hp, transform)
        matchIndex == CHOOSE i \in 0..2 :
                        /\ \A j \in 0..2 :
                             ~AbsDotLess(axes[i + 1], axes[j + 1], refAxis)
                        /\ \A j \in 0..2 :
                             j > i => AbsDotLess(axes[j + 1], axes[i + 1], refAxis)
        matchAxis  == axes[matchIndex + 1]
    IN  [matchIndex |-> matchIndex, matchAxis |-> matchAxis,
         matchSign |-> Sign(Dot3(matchAxis.v, refAxis.v))]

findTransformAxis(hp, transform, referenceVector) ==
    LET refAxis    == UnitOf(referenceVector)
        axes       == getAxesFromTransform(hp, transform)
        matchIndex == ArgMaxProjection(axes, refAxis)
        matchAxis  == axes[matchIndex + 1]
    IN  [matchIndex |-> matchIndex, matchAxis |-> matchAxis,
         matchSign |-> Sign(Dot3(matchAxis.v, refAxis.v))]

----------------------------------------------------------------------------
(* The calls of findTransformAxis: on the 24 rotations that map the axes   *)
(* onto the axes, with and without a translation, and on a transform that  *)
(* is not rigid; the reference vectors are the non-zero integer vectors.   *)

SignedAxes ==
    { <<1,0,0>>, <<-1,0,0>>, <<0,1,0>>, <<0,-1,0>>, <<0,0,1>>, <<0,0,-1>> }

AxisRotations(p) ==
    { FrameMatrix(q[1], q[2], Cross3(q[1], q[2]), p) :
        q \in { xy \in SignedAxes \X SignedAxes : Dot3(xy[1], xy[2]) = 0 } }

Coords == (0 - MaxCoord)..MaxCoord

RefVectors == { <<a, b, c>> : a \in Coords, b \in Coords, c \in Coords }
              \ { <<0, 0, 0>> }

AxisTransforms ==
    AxisRotations(<<0, 0, 0>>) \cup AxisRotations(<<1, 2, 3>>) \cup { ShearScale }

\* a rotation (orthonormal, determinant 1) and a translation
IsRigid(M) ==
    /\ \A i \in 1..3, j \in 1..3 :
         Dot3(Col3(M, i), Col3(M, j)) = (IF i = j THEN 1 ELSE 0)
    /\ Det3(M) = 1
    /\ M[4] = <<0, 0, 0, 1>>

InitAxis ==
    /\ heap \in { <<TransformOf(M, post)>> : M \in AxisTransforms,
                                            post \in BOOLEAN }
    /\ last = [op |-> "init"]
    /\ calls = 0
    /\ mutations = 0
    /\ copies = {}

Call_findTransformAxis ==
    \E t \in Handles(heap), ref \in RefVectors :
        /\ calls < MaxPureCalls
        /\ last' = [op |-> "findTransformAxis", before |-> heap,
                    transform |-> t, referenceVector |-> ref,
                    ret |-> findTransformAxis(heap, t, ref),
                    raised |-> "none"]
        /\ calls' = calls + 1
        /\ UNCHANGED <<heap, mutations, copies>>

NextAxis == Call_findTransformAxis

SpecAxis == InitAxis /\ [][NextAxis]_vars

(* C4: for a rigid transform and a non-zero reference vector,              *)
(* findTransformAxis returns (i, axis, sign) where i is the smallest index *)
(* whose axis has the largest absolute dot product with the reference,     *)
(* axis is the i-th axis of the transform (the i-th column of its          *)
(* rotation), and sign, +1 or -1, is the sign of the dot product of that   *)
(* axis with the reference; for the identity, (1,0,0) gives                *)
(* (0, (1,0,0), +1) and (-1,0,0) gives index 0 and sign -1.                *)
C4_FindAxis ==
    ( /\ last.op = "findTransformAxis"
      /\ IsRigid(GetMatrix(heap, last.transform)) )
    => LET M    == GetMatrix(heap, last.transform)
           ref  == last.referenceVector
           i    == last.ret.matchIndex
           d(k) == Dot3(Col3(M, k + 1), ref)
       IN  /\ i \in 0..2
           /\ \A k \in 0..2 : Abs(d(k)) <= Abs(d(i))
           /\ \A k \in 0..2 : k < i => Abs(d(k)) < Abs(d(i))
           /\ last.ret.matchAxis = Surd(Col3(M, i + 1), 1)
           /\ last.ret.matchSign \in {1, -1}
           /\ last.ret.matchSign = Sign(d(i))
           /\ (M = Identity4 /\ ref = <<1, 0, 0>>)
                => last.ret = [matchIndex |-> 0,
                               matchAxis |-> Surd(<<1, 0, 0>>, 1),
                               matchSign |-> 1]
           /\ (M = Identity4 /\ ref = <<-1, 0, 0>>)
                => (i = 0 /\ last.ret.matchSign = -1)

\* the axis of a rotated and translated transform has been matched against a
\* reference for which two axes tie, the match being anti-parallel
C4_Witness ==
    /\ last.op = "findTransformAxis"
    /\ LET M == GetMatrix(heap, last.transform)
       IN  /\ IsRigid(M)
           /\ M /= Identity4
           /\ Col3(M, 4) = <<1, 2, 3>>
    /\ last.referenceVector = <<1, -2, 2>>
    /\ last.ret.matchSign = -1
    /\ last.ret.matchIndex = 1

----------------------------------------------------------------------------
(* 4.5 / 4.6: poses and frameInterpolate.  The quaternion functions are    *)
(* those of thirdparty/transformations.py, which the functions below call. *)
(* A quaternion (w, x, y, z) of value v / sqrt(n2) is the record [v, n2].  *)
(* A weight is k / WDen and is given by k.                                 *)

Dot4(a, b) == a[1]*b[1] + a[2]*b[2] + a[3]*b[3] + a[4]*b[4]

\* the matrix is affine: transformations.quaternion_from_matrix divides by
\* sqrt(t * M[3][3])
IsAffine(M) == M[4] = <<0, 0, 0, 1>>

\* transformations.quaternion_from_matrix(M, isprecise=True): the numerators
\* q of the quaternion and the square 4 * t * M[3][3] of the divisor
QuaternionFromMatrix(M) ==
    LET E(r, c) == GetElement(M, r, c)
        tr == E(0,0) + E(1,1) + E(2,2) + E(3,3)
        i  == IF E(2,2) > (IF E(1,1) > E(0,0) THEN E(1,1) ELSE E(0,0)) THEN 2
              ELSE IF E(1,1) > E(0,0) THEN 1 ELSE 0
        j  == (i + 1) % 3
        k  == (i + 2) % 3
        t  == E(i,i) - (E(j,j) + E(k,k)) + E(3,3)
        xyz == [n \in 0..2 |-> IF n = i THEN t
                               ELSE IF n = j THEN E(i,j) + E(j,i)
                               ELSE E(k,i) + E(i,k)]
        q  == IF tr > E(3,3)
              THEN << tr, E(2,1) - E(1,2), E(0,2) - E(2,0), E(1,0) - E(0,1) >>
              ELSE << E(k,j) - E(j,k), xyz[0], xyz[1], xyz[2] >>
        n2 == 4 * (IF tr > E(3,3) THEN tr ELSE t) * E(3,3)
    IN  IF q[1] < 0 THEN Surd(<<-q[1], -q[2], -q[3], -q[4]>>, n2)
                    ELSE Surd(q, n2)

\* transformations.unit_vector
UnitQuaternion(q) == Surd(q.v, Dot4(q.v, q.v))

\* the two unit quaternions are equal or opposite: abs(abs(d) - 1) < eps for
\* their dot product d
Parallel(q0, q1) ==
    Dot4(q0.v, q1.v) * Dot4(q0.v, q1.v) = Dot4(q0.v, q0.v) * Dot4(q1.v, q1.v)

\* transformations.quaternion_slerp at the weights 0 and 1 and between equal
\* or opposite rotations, where it returns an end point; the interpolation
\* along the arc is not modelled, and no call of the model reaches it
QuaternionSlerp(quat0, quat1, k) ==
    LET q0 == UnitQuaternion(quat0)
        q1 == UnitQuaternion(quat1)
    IN  IF k = 0 THEN q0
        ELSE IF k = WDen THEN q1
        ELSE CASE Parallel(q0, q1) -> q0

\* the numerators of the rotation part of transformations.quaternion_matrix;
\* the entries are these over Dot4(q.v, q.v)
QuaternionMatrixNumerators(q) ==
    LET vv == Dot4(q.v, q.v)
        E(a, b) == 2 * q.v[a + 1] * q.v[b + 1]
    IN  << << vv - E(2,2) - E(3,3), E(1,2) - E(3,0), E(1,3) + E(2,0) >>,
           << E(1,2) + E(3,0), vv - E(1,1) - E(3,3), E(2,3) - E(1,0) >>,
           << E(1,3) - E(2,0), E(2,3) + E(1,0), vv - E(1,1) - E(2,2) >> >>

\* transformations.quaternion_matrix: the identity for a zero quaternion
QuaternionMatrix(q) ==
    LET vv == Dot4(q.v, q.v)
        N  == QuaternionMatrixNumerators(q)
    IN  IF vv = 0 THEN Identity4
        ELSE << << N[1][1] \div vv, N[1][2] \div vv, N[1][3] \div vv, 0 >>,
                << N[2][1] \div vv, N[2][2] \div vv, N[2][3] \div vv, 0 >>,
                << N[3][1] \div vv, N[3][2] \div vv, N[3][3] \div vv, 0 >>,
                << 0, 0, 0, 1 >> >>

\* mat[:3,3] = position
WithPosition(mat, position) ==
    << << mat[1][1], mat[1][2], mat[1][3], position[1] >>,
       << mat[2][1], mat[2][2], mat[2][3], position[2] >>,
       << mat[3][1], mat[3][2], mat[3][3], position[3] >>,
       mat[4] >>

poseFromTransform(hp, transform) ==
    LET mat == MatrixOfArray(getNumpyFromTransform(hp, transform))
    IN  [pos |-> Col3(mat, 4), quat |-> QuaternionFromMatrix(mat)]

\* transformFromPose without "mat[:3,3] = position"
transformFromPose_NoPosition(hp, position, quaternion) ==
    getTransformFromNumpy(hp, ArrayOf(QuaternionMatrix(quaternion)))

transformFromPose(hp, position, quaternion) ==
    LET mat == WithPosition(QuaternionMatrix(quaternion), position)
    IN  getTransformFromNumpy(hp, ArrayOf(mat))

\* pos_a * (1 - weight_b) + pos_b * weight_b for weight_b = k / WDen
InterpolatePosition(pos_a, pos_b, k) ==
    << (pos_a[1] * (WDen - k) + pos_b[1] * k) \div WDen,
       (pos_a[2] * (WDen - k) + pos_b[2] * k) \div WDen,
       (pos_a[3] * (WDen - k) + pos_b[3] * k) \div WDen >>

\* frameInterpolate with the two weights exchanged
frameInterpolate_WeightsSwapped(hp, trans_a, trans_b, k) ==
    LET a == poseFromTransform(hp, trans_a)
        b == poseFromTransform(hp, trans_b)
        pos_c  == InterpolatePosition(b.pos, a.pos, k)
        quat_c == QuaternionSlerp(a.quat, b.quat, k)
    IN  transformFromPose(hp, pos_c, quat_c)

frameInterpolate(hp, trans_a, trans_b, k) ==
    LET a == poseFromTransform(hp, trans_a)
        b == poseFromTransform(hp, trans_b)
        pos_c  == InterpolatePosition(a.pos, b.pos, k)
        quat_c == QuaternionSlerp(a.quat, b.quat, k)
    IN  transformFromPose(hp, pos_c, quat_c)

\* rpy in degrees
frameFromPositionAndRPY(hp, position, rpy) ==
    LET mat == WithPosition(EulerMatrix(rpy[1], rpy[2], rpy[3]), position)
    IN  getTransformFromNumpy(hp, ArrayOf(mat))

----------------------------------------------------------------------------
(* The calls of frameInterpolate and frameFromPositionAndRPY.  A call of   *)
(* frameInterpolate is made when its result is in                          *)
(* the model: the transforms are affine, the weight is 0 or 1 or the two   *)
(* rotations are equal or opposite, and every number of the result is an   *)
(* integer.                                                                *)

\* uniform scaling by 2, then translation by (1, 2, 3): affine, not rigid
Scale2At123 == FrameMatrix(<<2,0,0>>, <<0,2,0>>, <<0,0,2>>, <<1,2,3>>)

\* reflection in the plane z = 0: orthonormal, of determinant -1
MirrorZ == FrameMatrix(<<1,0,0>>, <<0,1,0>>, <<0,0,-1>>, <<0,0,0>>)

\* rotation by 180 degrees about X, then a translation that differs from
\* (1, 2, 3) by multiples of WDen
RotX180Far ==
    FrameMatrix(<<1,0,0>>, <<0,-1,0>>, <<0,0,-1>>,
                <<1 - WDen, 2 + 2 * WDen, 3>>)

FrameInputsA ==
    AxisRotations(<<1, 2, 3>>)
    \cup { Identity4, TranslationMatrix(<<1 + WDen, 2, 3 - WDen>>),
           Scale2At123, MirrorZ }

FrameInputsB == { RotZ90At123, RotX180Far, Scale2At123 }

FramePositions == { <<0, 0, 0>>, <<1, 2, 3>> }

\* (roll, pitch, yaw) in degrees
FrameAngles == { <<0, 0, 0>>, <<0, 0, 90>>, <<90, 0, 0>>, <<-90, 180, 270>> }

Weights == (0 - WSpan)..(WDen + WSpan)

Divides(d, n) == n % d = 0

InterpolationInModel(hp, trans_a, trans_b, k) ==
    LET Ma == GetMatrix(hp, trans_a)
        Mb == GetMatrix(hp, trans_b)
        a  == poseFromTransform(hp, trans_a)
        b  == poseFromTransform(hp, trans_b)
    IN  /\ IsAffine(Ma) /\ IsAffine(Mb)
        /\ a.quat.n2 > 0 /\ b.quat.n2 > 0
        /\ k \in {0, WDen} \/ Parallel(a.quat, b.quat)
        /\ \A i \in 1..3 :
             Divides(WDen, a.pos[i] * (WDen - k) + b.pos[i] * k)
        /\ LET qc == QuaternionSlerp(a.quat, b.quat, k)
               vv == Dot4(qc.v, qc.v)
               N  == QuaternionMatrixNumerators(qc)
           IN  /\ vv > 0
               /\ \A r \in 1..3, c \in 1..3 : Divides(vv, N[r][c])

InitInterp ==
    /\ heap \in { <<TransformOf(A, FALSE), TransformOf(B, TRUE)>> :
                    A \in FrameInputsA, B \in FrameInputsB }
    /\ last = [op |-> "init"]
    /\ calls = 0
    /\ mutations = 0
    /\ copies = {}

Call_frameInterpolate ==
    \E a \in Handles(heap), b \in Handles(heap), k \in Weights :
        /\ calls < MaxPureCalls
        /\ Len(heap) < MaxHandles
        /\ InterpolationInModel(heap, a, b, k)
        /\ LET r == frameInterpolate(heap, a, b, k)
           IN  /\ heap' = r.heap
               /\ last' = [op |-> "frameInterpolate", before |-> heap,
                           trans_a |-> a, trans_b |-> b, weight_b |-> k,
                           ret |-> r.ret, raised |-> r.raised]
        /\ calls' = calls + 1
        /\ UNCHANGED <<mutations, copies>>

Call_frameFromPositionAndRPY ==
    \E position \in FramePositions, rpy \in FrameAngles :
        /\ calls < MaxPureCalls
        /\ Len(heap) < MaxHandles
        /\ LET r == frameFromPositionAndRPY(heap, position, rpy)
           IN  /\ heap' = r.heap
               /\ last' = [op |-> "frameFromPositionAndRPY", before |-> heap,
                           position |-> position, rpy |-> rpy,
                           ret |-> r.ret, raised |-> r.raised]
        /\ calls' = calls + 1
        /\ UNCHANGED <<mutations, copies>>

NextInterp == Call_frameInterpolate \/ Call_frameFromPositionAndRPY

SpecInterp == InitInterp /\ [][NextInterp]_vars

(* C5, as stated: for all transforms a and b, frameInterpolate(a, b, 0)    *)
(* has a's matrix and frameInterpolate(a, b, 1) has b's, and neither a nor *)
(* b is modified.                                                          *)
C5_AsStated ==
    last.op = "frameInterpolate"
    => /\ last.weight_b = 0
            => GetMatrix(heap, last.ret) = GetMatrix(last.before, last.trans_a)
       /\ last.weight_b = WDen
            => GetMatrix(heap, last.ret) = GetMatrix(last.before, last.trans_b)
       /\ \A g \in Handles(last.before) : heap[g] = last.before[g]

(* C5, amended: for all rigid transforms a and b (a rotation and a         *)
(* translation), frameInterpolate(a, b, 0) has a's matrix and              *)
(* frameInterpolate(a, b, 1) has b's, and neither a nor b is modified.     *)
C5_EndPoints ==
    ( /\ last.op = "frameInterpolate"
      /\ IsRigid(GetMatrix(last.before, last.trans_a))
      /\ IsRigid(GetMatrix(last.before, last.trans_b)) )
    => /\ last.weight_b = 0
            => GetMatrix(heap, last.ret) = GetMatrix(last.before, last.trans_a)
       /\ last.weight_b = WDen
            => GetMatrix(heap, last.ret) = GetMatrix(last.before, last.trans_b)
       /\ last.ret = Len(last.before) + 1
       /\ \A g \in Handles(last.before) : heap[g] = last.before[g]

\* two rigid transforms of different rotation and position have been
\* interpolated at weight 1
C5_Witness ==
    /\ last.op = "frameInterpolate"
    /\ last.weight_b = WDen
    /\ LET Ma == GetMatrix(last.before, last.trans_a)
           Mb == GetMatrix(last.before, last.trans_b)
       IN  /\ IsRigid(Ma) /\ IsRigid(Mb)
           /\ Col3(Ma, 4) /= Col3(Mb, 4)
           /\ Col3(Ma, 1) /= Col3(Mb, 1)
           /\ Mb /= Identity4
           /\ GetMatrix(heap, last.ret) = Mb

(* C6, as stated: for every transform a and every weight w,                *)
(* frameInterpolate(a, a, w) has a's matrix.                               *)
C6_AsStated ==
    ( /\ last.op = "frameInterpolate"
      /\ last.trans_a = last.trans_b )
    => GetMatrix(heap, last.ret) = GetMatrix(last.before, last.trans_a)

(* C6, amended: for every rigid transform a and every weight w, also       *)
(* outside [0, 1], frameInterpolate(a, a, w) has a's matrix.               *)
C6_SameFrame ==
    ( /\ last.op = "frameInterpolate"
      /\ last.trans_a = last.trans_b
      /\ IsRigid(GetMatrix(last.before, last.trans_a)) )
    => GetMatrix(heap, last.ret) = GetMatrix(last.before, last.trans_a)

\* a rotated and translated rigid transform has been interpolated with
\* itself at a weight above 1 that is not a whole number
C6_Witness ==
    /\ last.op = "frameInterpolate"
    /\ last.trans_a = last.trans_b
    /\ last.weight_b > WDen
    /\ ~Divides(WDen, last.weight_b)
    /\ LET Ma == GetMatrix(last.before, last.trans_a)
       IN  /\ IsRigid(Ma)
           /\ Col3(Ma, 4) = <<1, 2, 3>>
           /\ Col3(Ma, 1) = <<0, 0, -1>>
           /\ GetMatrix(heap, last.ret) = Ma

----------------------------------------------------------------------------
(* 4.2 / 4.3: frames from axes and getLookAtTransform.  A vector divided by *)
(* its norm is the record [v, n2] of value v / sqrt(n2) until it is         *)
(* stored in the matrix; 0 / 0 is NaN, which numpy returns with a warning.  *)

IsSquare(n) == \E r \in 0..n : r * r = n

Root(n) == CHOOSE r \in 0..n : r * r = n

\* every component of v / sqrt(n2) is an integer or NaN
SurdIsInteger(s) ==
    IF s.n2 = 0 THEN TRUE
    ELSE /\ IsSquare(s.n2)
         /\ \A i \in 1..3 : Divides(Root(s.n2), s.v[i])

SurdValue(s) ==
    IF s.n2 = 0 THEN <<NaN, NaN, NaN>>
    ELSE << s.v[1] \div Root(s.n2), s.v[2] \div Root(s.n2),
            s.v[3] \div Root(s.n2) >>

\* the columns of the rotation part are mutually orthogonal unit vectors
Orthonormal(M) ==
    /\ \A r \in 1..3, c \in 1..3 : ~IsNaN(M[r][c])
    /\ \A i \in 1..3, j \in 1..3 :
         Dot3(Col3(M, i), Col3(M, j)) = (IF i = j THEN 1 ELSE 0)

\* fabs
AbsN(x) == IF IsNaN(x) THEN NaN ELSE Abs(x)

\* a > b on doubles: false when one of them is NaN
GreaterN(a, b) == ~IsNaN(a) /\ ~IsNaN(b) /\ a > b

\* the larger of two absolute values as "if (tmp > largest) largest = tmp"
\* leaves it
LargerN(tmp, largest) == IF GreaterN(tmp, largest) THEN tmp ELSE largest

\* the largest absolute value of a row, as vtk's pivoting computes it
RowLargest(row) ==
    LargerN(AbsN(row[3]), LargerN(AbsN(row[2]), AbsN(row[1])))

\* the scale of a row is 1 over this: "scale = 1; if (largest != 0) scale /=
\* largest"
ScaleDen(largest) ==
    IF IsNaN(largest) THEN NaN ELSE IF largest /= 0 THEN largest ELSE 1

\* scale1 * fabs(e1) >= scale2 * fabs(e2) for the scales 1 / d1 and 1 / d2
GeqScaled(e1, d1, e2, d2) ==
    /\ ~IsNaN(e1) /\ ~IsNaN(d1) /\ ~IsNaN(e2) /\ ~IsNaN(d2)
    /\ Abs(e1) * d2 >= Abs(e2) * d1

SwapRows(M, i, j) ==
    [r \in 1..4 |-> IF r = i THEN M[j] ELSE IF r = j THEN M[i] ELSE M[r]]

\* the scales of the three rows
RowScaleDens(B) ==
    << ScaleDen(RowLargest(B[1])), ScaleDen(RowLargest(B[2])),
       ScaleDen(RowLargest(B[3])) >>

\* the row that vtk's pivoting moves to the top, for the first column c and
\* the scales 1 / d
PivotFirst(c, d) ==
    LET i1 == IF GeqScaled(c[2], d[2], c[1], d[1]) THEN 2 ELSE 1
    IN  IF GeqScaled(c[3], d[3], c[i1], d[i1]) THEN 3 ELSE i1

\* the row that it then moves to the middle, for the second column c and
\* the scales 1 / d of the rows after the first exchange
PivotSecond(c, d) == IF GeqScaled(c[3], d[3], c[2], d[2]) THEN 3 ELSE 2

\* the second and the third column are NaN: every entry of the symmetric
\* 4x4 matrix whose eigenvector is the quaternion is then NaN
NaNAxes(axes) ==
    \A r \in 1..3 : IsNaN(axes[r][2]) /\ IsNaN(axes[r][3])

\* the columns are orthogonal and their norms are positive integers that
\* divide them
ScaledFrame(axes) ==
    /\ ~HasNaN(axes)
    /\ \A i \in 1..3, j \in 1..3 :
         i /= j => Dot3(Col3(axes, i), Col3(axes, j)) = 0
    /\ \A i \in 1..3 :
         /\ Dot3(Col3(axes, i), Col3(axes, i)) > 0
         /\ SurdIsInteger(UnitOf(Col3(axes, i)))

\* the matrices on which vtkMath.Orthogonalize3x3 is modelled
OrthogonalizeInModel(axes) == NaNAxes(axes) \/ ScaledFrame(axes)

\* vtkMath.Orthogonalize3x3: the rows are pivoted, the rotation nearest to
\* the matrix is computed through a quaternion (the eigenvector of a
\* symmetric 4x4 matrix), and the pivoting is undone.  For orthogonal
\* columns the nearest rotation has the columns divided by their norms.
\* With NaN columns no comparison of the eigenvalue iteration holds, it gives
\* up with the eigenvectors at the identity, and the result is the identity
\* with the pivoting undone.
Orthogonalize3x3(axes) ==
    IF HasNaN(axes)
    THEN LET index0 == PivotFirst(Col3(axes, 1), RowScaleDens(axes))
             B      == SwapRows(axes, 1, index0)
             index1 == PivotSecond(Col3(B, 2), RowScaleDens(B))
         IN  SwapRows(SwapRows(Identity4, 2, index1), 1, index0)
    ELSE FrameMatrix(SurdValue(UnitOf(Col3(axes, 1))),
                     SurdValue(UnitOf(Col3(axes, 2))),
                     SurdValue(UnitOf(Col3(axes, 3))), <<0, 0, 0>>)

\* the three axes are the columns of the matrix, whose translation is zero
getTransformFromAxes(hp, xaxis, yaxis, zaxis) ==
    LET axes == Orthogonalize3x3(FrameMatrix(xaxis, yaxis, zaxis, <<0, 0, 0>>))
    IN  [heap   |-> Append(hp, SetMatrix(NewTransform, axes)),
         ret    |-> Len(hp) + 1,
         raised |-> "none"]

getTransformFromAxesAndOrigin(hp, xaxis, yaxis, zaxis, origin) ==
    LET r == getTransformFromAxes(hp, xaxis, yaxis, zaxis)
    IN  [r EXCEPT !.heap[r.ret] = Translate(PostMultiply(@), origin)]

\* the axes that getLookAtTransform computes from the direction xaxis
LookAtAxes(xaxis, viewUp) ==
    LET yv == Cross3(viewUp, xaxis)
    IN  [x |-> UnitOf(xaxis),
         y |-> UnitOf(yv),
         z |-> Surd(Cross3(xaxis, yv), Dot3(xaxis, xaxis) * Dot3(yv, yv))]

\* getLookAtTransform with the world Y axis as its fallback
getLookAtTransform_FallbackY(hp, lookAtPosition, lookFromPosition, viewUp) ==
    LET d  == << lookAtPosition[1] - lookFromPosition[1],
                 lookAtPosition[2] - lookFromPosition[2],
                 lookAtPosition[3] - lookFromPosition[3] >>
        xaxis == IF Dot3(d, d) = 0 THEN <<0, 1, 0>> ELSE d
        ax == LookAtAxes(xaxis, viewUp)
    IN  getTransformFromAxesAndOrigin(hp, SurdValue(ax.x), SurdValue(ax.y),
                                      SurdValue(ax.z), lookFromPosition)

getLookAtTransform(hp, lookAtPosition, lookFromPosition, viewUp) ==
    LET d  == << lookAtPosition[1] - lookFromPosition[1],
                 lookAtPosition[2] - lookFromPosition[2],
                 lookAtPosition[3] - lookFromPosition[3] >>
        xaxis == IF Dot3(d, d) = 0 THEN <<1, 0, 0>> ELSE d
        ax == LookAtAxes(xaxis, viewUp)
    IN  getTransformFromAxesAndOrigin(hp, SurdValue(ax.x), SurdValue(ax.y),
                                      SurdValue(ax.z), lookFromPosition)

\* vtkMath.Perpendiculars(x, y, z, 0) for x = v / sqrt(n2): the component of
\* x that is largest in absolute value is taken first (the last one on a
\* tie), and for the components (a, b, c) in that order y is
\* (c, 0, -a) / tmp and z is (-a b, tmp^2, -b c) / tmp, tmp = sqrt(a^2 + c^2)
Perpendiculars(x) ==
    LET v  == x.v
        dx == IF v[1]*v[1] > v[2]*v[2] /\ v[1]*v[1] > v[3]*v[3] THEN 1
              ELSE IF v[2]*v[2] > v[3]*v[3] THEN 2 ELSE 3
        dy == (dx % 3) + 1
        dz == (dy % 3) + 1
        a  == v[dx]
        b  == v[dy]
        c  == v[dz]
        t2 == a*a + c*c
        yv == [i \in 1..3 |-> IF i = dx THEN c ELSE IF i = dy THEN 0 ELSE 0 - a]
        zv == [i \in 1..3 |-> IF i = dx THEN 0 - a*b
                              ELSE IF i = dy THEN t2 ELSE 0 - b*c]
    IN  [y |-> Surd(<<yv[1], yv[2], yv[3]>>, t2),
         z |-> Surd(<<zv[1], zv[2], zv[3]>>, x.n2 * t2)]

\* the axes list of getTransformFromOriginAndNormal: the normal at
\* normalAxis, the two perpendiculars after it
NormalAxes(normal, normalAxis) ==
    LET n == UnitOf(normal)
        p == Perpendiculars(n)
    IN  [i \in 0..2 |-> IF i = normalAxis THEN n
                        ELSE IF i = (normalAxis + 1) % 3 THEN p.y ELSE p.z]

getTransformFromOriginAndNormal(hp, origin, normal, normalAxis) ==
    LET axes == NormalAxes(normal, normalAxis)
        r == getTransformFromAxes(hp, SurdValue(axes[0]), SurdValue(axes[1]),
                                  SurdValue(axes[2]))
    IN  [r EXCEPT !.heap[r.ret] = Translate(PostMultiply(@), origin)]

----------------------------------------------------------------------------
(* The calls of the frame constructors.  A call is made when the axes it    *)
(* computes have integer or NaN components and Orthogonalize3x3 is          *)
(* modelled on them.                                                        *)

LookFromPoints == { <<0, 0, 0>>, <<1, -2, 2>>, <<-1, 0, MaxCoord>> }

LookOffsets == { <<0, 0, 0>>, <<2, 0, 0>>, <<0, -1, 0>>, <<0, 0, MaxCoord>> }

ViewUps == { <<a, b, c>> : a \in Coords, b \in {0, -1, MaxCoord}, c \in {0, 1} }

Scale3(k, v) == <<k * v[1], k * v[2], k * v[3]>>

\* orthogonal axes: the first one scaled, right- and left-handed
AxesInputs ==
    { <<Scale3(s, q[1]), q[2], Scale3(t, Cross3(q[1], q[2]))>> :
        q \in { xy \in SignedAxes \X SignedAxes : Dot3(xy[1], xy[2]) = 0 },
        s \in {1, MaxCoord}, t \in {1, -1} }

FrameOrigins == { <<0, 0, 0>>, <<1, -2, 2>> }

LookAtInModel(lookAtPosition, lookFromPosition, viewUp) ==
    LET d  == << lookAtPosition[1] - lookFromPosition[1],
                 lookAtPosition[2] - lookFromPosition[2],
                 lookAtPosition[3] - lookFromPosition[3] >>
        ax == LookAtAxes(IF Dot3(d, d) = 0 THEN <<1, 0, 0>> ELSE d, viewUp)
    IN  /\ SurdIsInteger(ax.x) /\ SurdIsInteger(ax.y) /\ SurdIsInteger(ax.z)
        /\ OrthogonalizeInModel(FrameMatrix(SurdValue(ax.x), SurdValue(ax.y),
                                            SurdValue(ax.z), <<0, 0, 0>>))

NormalInModel(normal, normalAxis) ==
    LET axes == NormalAxes(normal, normalAxis)
    IN  /\ normal /= <<0, 0, 0>>
        /\ \A i \in 0..2 : axes[i].n2 > 0 /\ SurdIsInteger(axes[i])
        /\ OrthogonalizeInModel(FrameMatrix(SurdValue(axes[0]), SurdValue(axes[1]),
                                            SurdValue(axes[2]), <<0, 0, 0>>))

InitLookAt ==
    /\ heap = << >>
    /\ last = [op |-> "init"]
    /\ calls = 0
    /\ mutations = 0
    /\ copies = {}

Call_getTransformFromAxes ==
    \E axes \in AxesInputs :
        /\ calls < MaxPureCalls
        /\ Len(heap) < MaxHandles
        /\ axes[3] = Cross3(axes[1], axes[2]) \/ axes[1][1] /= 0
        /\ OrthogonalizeInModel(FrameMatrix(axes[1], axes[2], axes[3], <<0, 0, 0>>))
        /\ LET r == getTransformFromAxes(heap, axes[1], axes[2], axes[3])
           IN  /\ heap' = r.heap
               /\ last' = [op |-> "getTransformFromAxes", before |-> heap,
                           xaxis |-> axes[1], yaxis |-> axes[2],
                           zaxis |-> axes[3],
                           ret |-> r.ret, raised |-> r.raised]
        /\ calls' = calls + 1
        /\ UNCHANGED <<mutations, copies>>

Call_getTransformFromAxesAndOrigin ==
    \E axes \in AxesInputs, origin \in FrameOrigins :
        /\ calls < MaxPureCalls
        /\ Len(heap) < MaxHandles
        /\ axes[2] = <<0, 1, 0>>
        /\ OrthogonalizeInModel(FrameMatrix(axes[1], axes[2], axes[3], <<0, 0, 0>>))
        /\ LET r == getTransformFromAxesAndOrigin(heap, axes[1], axes[2],
                                                  axes[3], origin)
           IN  /\ heap' = r.heap
               /\ last' = [op |-> "getTransformFromAxesAndOrigin",
                           before |-> heap,
                           xaxis |-> axes[1], yaxis |-> axes[2],
                           zaxis |-> axes[3], origin |-> origin,
                           ret |-> r.ret, raised |-> r.raised]
        /\ calls' = calls + 1
        /\ UNCHANGED <<mutations, copies>>

Call_getTransformFromOriginAndNormal ==
    \E origin \in FrameOrigins, normal \in RefVectors, normalAxis \in 0..2 :
        /\ calls < MaxPureCalls
        /\ Len(heap) < MaxHandles
        /\ NormalInModel(normal, normalAxis)
        /\ LET r == getTransformFromOriginAndNormal(heap, origin, normal,
                                                    normalAxis)
           IN  /\ heap' = r.heap
               /\ last' = [op |-> "getTransformFromOriginAndNormal",
                           before |-> heap, origin |-> origin,
                           normal |-> normal, normalAxis |-> normalAxis,
                           ret |-> r.ret, raised |-> r.raised]
        /\ calls' = calls + 1
        /\ UNCHANGED <<mutations, copies>>

Call_getLookAtTransform ==
    \E from \in LookFromPoints, off \in LookOffsets, viewUp \in ViewUps :
        LET at == <<from[1] + off[1], from[2] + off[2], from[3] + off[3]>>
        IN  /\ calls < MaxPureCalls
            /\ Len(heap) < MaxHandles
            /\ LookAtInModel(at, from, viewUp)
            /\ LET r == getLookAtTransform(heap, at, from, viewUp)
               IN  /\ heap' = r.heap
                   /\ last' = [op |-> "getLookAtTransform", before |-> heap,
                               lookAtPosition |-> at,
                               lookFromPosition |-> from, viewUp |-> viewUp,
                               ret |-> r.ret, raised |-> r.raised]
            /\ calls' = calls + 1
            /\ UNCHANGED <<mutations, copies>>

NextLookAt ==
    \/ Call_getTransformFromAxes
    \/ Call_getTransformFromAxesAndOrigin
    \/ Call_getTransformFromOriginAndNormal
    \/ Call_getLookAtTransform

SpecLookAt == InitLookAt /\ [][NextLookAt]_vars

(* C7: for every point p and every non-zero viewUp,                         *)
(* getLookAtTransform(p, p, viewUp) does not raise, has the world X axis    *)
(* (1,0,0) as its X axis, and returns a transform whose three axes are      *)
(* mutually orthogonal unit vectors and whose translation is p.             *)
C7_LookAtCoincident ==
    ( /\ last.op = "getLookAtTransform"
      /\ last.lookAtPosition = last.lookFromPosition
      /\ last.viewUp /= <<0, 0, 0>> )
    => LET M == GetMatrix(heap, last.ret)
       IN  /\ last.raised = "none"
           /\ Col3(M, 1) = <<1, 0, 0>>
           /\ Orthonormal(M)
           /\ Col3(M, 4) = last.lookFromPosition
           /\ M[4] = <<0, 0, 0, 1>>

\* a look-at transform has been built at a point away from the origin, for
\* coincident points and a view-up along the world X axis, for which the
\* Y and Z axes that numpy computes are NaN
C7_Witness ==
    /\ last.op = "getLookAtTransform"
    /\ last.lookAtPosition = <<1, -2, 2>>
    /\ last.lookFromPosition = <<1, -2, 2>>
    /\ last.viewUp = <<MaxCoord, 0, 0>>
    /\ LookAtAxes(<<1, 0, 0>>, last.viewUp).y.n2 = 0
    /\ GetMatrix(heap, last.ret) = TranslationMatrix(<<1, -2, 2>>)

=============================================================================
